---- MODULE Spec2Model ----
(***************************************************************************)
(* Blood-donor registration backend (script.js): the startup initializer,  *)
(* POST /api/donors with its two store writes, and GET /api/donors, over   *)
(* a store whose statements execute one at a time.                         *)
(*                                                                         *)
(* JavaScript strings are sequences of one-character strings; a field the  *)
(* JSON body does not carry is Undefined, a column without a value NULL.   *)
(***************************************************************************)
EXTENDS Integers, Sequences, FiniteSets, TLC

VARIABLES tables, admins, inventory, donors, init, adminInsert, starts,
          req, now, listing, console

vars == <<tables, admins, inventory, donors, init, adminInsert, starts,
          req, now, listing, console>>

(* ---------------------------- bounds ----------------------------------- *)

\* requests the clients make in one behaviour, all possibly concurrent
MaxReqs == 2
\* seconds the store clock can advance
MaxTime == 1
\* process starts against the same database file
MaxStarts == 2
\* length of the varied leading part of a phone string
MaxPrefixLen == 4

(* ---------------------------- values ----------------------------------- *)

Undefined == <<"undefined">>
NULL == <<"NULL">>

Digits == {"0", "1", "2", "3", "4", "5", "6", "7", "8", "9"}

\* the characters of the model's alphabet that the regex class \s matches
IsSpace(c) == c \in {" ", "\t"}

NotSpace(c) == ~IsSpace(c)

\* const bloodTypes = ['O+', 'O-', 'A+', 'A-', 'B+', 'B-', 'AB+', 'AB-']
bloodTypes ==
    << <<"O", "+">>, <<"O", "-">>, <<"A", "+">>, <<"A", "-">>,
       <<"B", "+">>, <<"B", "-">>, <<"A", "B", "+">>, <<"A", "B", "-">> >>

CanonicalTypes == {bloodTypes[i] : i \in 1..Len(bloodTypes)}

AllTables == <<"donors", "admins", "blood_inventory", "blood_requests",
               "nid_verification_logs">>

defaultAdmin ==
    [username |-> "admin", password |-> "admin123",
     email |-> "admin@roktokona.org", name |-> "system admin"]

\* response messages, named by the rule that produces them
MsgRequired == "required-fields"
MsgEmail == "email-format"
MsgPhone == "phone-format"
MsgNid == "nid-format"
MsgStore == "registration-failed"
MsgRegistered == "registered"
MsgLoadFailed == "load-failed"

(* ------------------------ validation --------------------------------- *)

\* JavaScript truthiness of a destructured body field (strings only)
Truthy(v) == v # Undefined /\ v # <<>>

RequiredFields ==
    {"firstName", "lastName", "email", "phone", "bloodType", "gender", "city"}

Fields ==
    RequiredFields \cup {"dob", "address", "zipCode", "nidNumber", "registeredBy"}

\* if (!firstName || !lastName || !email || !phone || !bloodType || !gender || !city)
RequiredPresent(b) ==
    /\ Truthy(b["firstName"]) /\ Truthy(b["lastName"]) /\ Truthy(b["email"])
    /\ Truthy(b["phone"]) /\ Truthy(b["bloodType"]) /\ Truthy(b["gender"])
    /\ Truthy(b["city"])

\* /^[^\s@]+@[^\s@]+\.[^\s@]+$/.test(s)
emailRegex(s) ==
    \E i \in 1..Len(s), j \in 1..Len(s) :
        /\ 1 < i /\ i + 1 < j /\ j < Len(s)
        /\ s[i] = "@" /\ s[j] = "."
        /\ \A k \in (1..Len(s)) \ {i} : NotSpace(s[k]) /\ s[k] # "@"

\* phone.replace(/\s/g, '')
StripSpaces(s) == SelectSeq(s, NotSpace)

SubscriberDigits == 8

\* the same pattern with the leading "+" mandatory
phoneRegex_NoPlusOpt(s) ==
    \E z \in {0, 1} :
        /\ Len(s) = 1 + 2 + z + 2 + SubscriberDigits
        /\ s[1] = "+" /\ s[2] = "8" /\ s[3] = "8"
        /\ (z = 1 => s[4] = "0")
        /\ s[4 + z] = "1"
        /\ s[5 + z] \in {"3", "4", "5", "6", "7", "8", "9"}
        /\ \A k \in 1..SubscriberDigits : s[5 + z + k] \in Digits

\* /^\+?880?\s?1[3-9]\d{8}$/.test(s): p, z, w say whether the optional
\* "+", "0" and whitespace are taken
phoneRegex(s) ==
    \E p \in {0, 1}, z \in {0, 1}, w \in {0, 1} :
        /\ Len(s) = p + 2 + z + w + 2 + SubscriberDigits
        /\ (p = 1 => s[1] = "+")
        /\ s[p + 1] = "8" /\ s[p + 2] = "8"
        /\ (z = 1 => s[p + 3] = "0")
        /\ (w = 1 => IsSpace(s[p + z + 3]))
        /\ s[p + z + w + 3] = "1"
        /\ s[p + z + w + 4] \in {"3", "4", "5", "6", "7", "8", "9"}
        /\ \A k \in 1..SubscriberDigits : s[p + z + w + 4 + k] \in Digits

NidDigits == 17

\* /^\d{17}$/.test(s)
nidRegex(s) == Len(s) = NidDigits /\ \A k \in 1..Len(s) : s[k] \in Digits

\* the validation with city left out of the required-field test
Validate_SkipCity(b) ==
    IF ~(/\ Truthy(b["firstName"]) /\ Truthy(b["lastName"]) /\ Truthy(b["email"])
         /\ Truthy(b["phone"]) /\ Truthy(b["bloodType"]) /\ Truthy(b["gender"]))
    THEN MsgRequired
    ELSE IF ~Truthy(b["city"]) THEN ""
    ELSE IF ~emailRegex(b["email"]) THEN MsgEmail
    ELSE IF ~phoneRegex(StripSpaces(b["phone"])) THEN MsgPhone
    ELSE IF Truthy(b["nidNumber"]) /\ ~nidRegex(b["nidNumber"]) THEN MsgNid
    ELSE ""

\* the 400 message of the first validation rule the body breaks, "" if none
Validate(b) ==
    IF ~RequiredPresent(b) THEN MsgRequired
    ELSE IF ~emailRegex(b["email"]) THEN MsgEmail
    ELSE IF ~phoneRegex(StripSpaces(b["phone"])) THEN MsgPhone
    ELSE IF Truthy(b["nidNumber"]) /\ ~nidRegex(b["nidNumber"]) THEN MsgNid
    ELSE ""

(* --------------------------- payloads ---------------------------------- *)

ValidPhone == <<"+", "8", "8", "0", "1", "7", "1", "1", "1", "1", "2", "2", "2", "2">>
ValidNid == <<"1", "9", "9", "0", "1", "2", "3", "4", "5", "6", "7", "8", "9", "0", "1", "2", "3">>
TypeOPos == <<"O", "+">>
TypeABNeg == <<"A", "B", "-">>
TypeX == <<"X">>
TagAdmin == <<"a", "d", "m", "i", "n">>
TagUser == <<"u", "s", "e", "r">>

\* every field of the registration form filled in, no national ID
FullBody ==
    [firstName |-> <<"K", "a", "r", "i", "m">>,
     lastName |-> <<"U", "d", "d", "i", "n">>,
     email |-> <<"k", "@", "e", "x", ".", "c", "o", "m">>,
     phone |-> ValidPhone,
     dob |-> <<"1", "9", "9", "0">>,
     bloodType |-> TypeOPos,
     gender |-> <<"M", "a", "l", "e">>,
     address |-> <<"R", "d", "1">>,
     city |-> <<"D", "h", "a", "k", "a">>,
     zipCode |-> <<"1", "2", "0", "7">>,
     nidNumber |-> Undefined,
     registeredBy |-> Undefined]

\* the required fields only: date of birth, address and zip code omitted
RequiredOnlyBody ==
    [FullBody EXCEPT !["dob"] = Undefined, !["address"] = Undefined,
                     !["zipCode"] = Undefined]

NoBody == [f \in Fields |-> Undefined]

\* the payloads of the concurrent specification
Bodies ==
    { FullBody,
      [FullBody EXCEPT !["bloodType"] = TypeABNeg, !["nidNumber"] = ValidNid,
                       !["registeredBy"] = TagAdmin],
      [FullBody EXCEPT !["bloodType"] = TypeX],
      RequiredOnlyBody,
      [FullBody EXCEPT !["phone"] = <<"1", "2", "3", "4", "5">>] }

\* every way of leaving required fields out (Undefined) or empty
RequiredVariants ==
    { [f \in Fields |->
          IF f \in RequiredFields
          THEN (IF c[f] = 0 THEN Undefined ELSE IF c[f] = 1 THEN <<>> ELSE FullBody[f])
          ELSE FullBody[f]] : c \in [RequiredFields -> {0, 1, 2}] }

PrefixChars == {"+", "8", "0", " "}

PhonePrefixes == UNION { [1..n -> PrefixChars] : n \in 0..MaxPrefixLen }

PhoneTails ==
    { <<"1", "7", "1", "1", "1", "1", "2", "2", "2", "2">>,
      <<"1", "7", "1", "1", "\t", "1", "1", "2", "2", "2", "2">>,
      <<"1", "2", "1", "1", "1", "1", "2", "2", "2", "2">>,
      <<"1", "7", "1", "1", "1", "1", "2", "2", "2">>,
      <<"1", "7", "1", "1", "1", "1", "2", "2", "2", "2", "2">>,
      <<"1", "7", "1", "1", "1", "1", "2", "2", "2", "x">>,
      <<"7", "1", "1", "1", "1", "2", "2", "2", "2">>,
      <<"1", "2", "3", "4", "5">> }

Phones == { pre \o tail : pre \in PhonePrefixes, tail \in PhoneTails }

PhoneVariants == { [FullBody EXCEPT !["phone"] = p] : p \in Phones }

OtherVariants ==
    { RequiredOnlyBody,
      [FullBody EXCEPT !["bloodType"] = TypeX],
      [FullBody EXCEPT !["nidNumber"] = ValidNid],
      [FullBody EXCEPT !["nidNumber"] = <<"1", "2", "3">>],
      [FullBody EXCEPT !["email"] = <<"k", "@", "e", "x">>],
      [FullBody EXCEPT !["email"] = <<"k", " ", "@", "e", ".", "c">>] }

\* the payloads of the one-request specification
OneBodies == RequiredVariants \cup PhoneVariants \cup OtherVariants

(* ----------------------------- store ----------------------------------- *)

\* a parameter that is undefined binds as NULL
Bind(v) == IF v = Undefined THEN NULL ELSE v

\* the row INSERT INTO donors writes for body b, as the id-th row at time t
DonorRow(b, id, t) ==
    [id |-> id,
     firstName |-> Bind(b["firstName"]), lastName |-> Bind(b["lastName"]),
     email |-> Bind(b["email"]), phone |-> Bind(b["phone"]),
     dob |-> Bind(b["dob"]), bloodType |-> Bind(b["bloodType"]),
     gender |-> Bind(b["gender"]), address |-> Bind(b["address"]),
     city |-> Bind(b["city"]), zipCode |-> Bind(b["zipCode"]),
     nidNumber |-> Bind(b["nidNumber"]),
     nidVerified |-> 0,
     nidData |-> NULL,
     registrationDate |-> t,
     status |-> "Active",
     registeredBy |-> IF Truthy(b["registeredBy"]) THEN b["registeredBy"] ELSE TagUser]

\* the NOT NULL columns of donors the INSERT names
NotNullColumns ==
    {"firstName", "lastName", "email", "phone", "dob", "bloodType", "gender",
     "address", "city", "zipCode"}

NotNullHolds(row) == \A c \in NotNullColumns : row[c] # NULL

\* the admins table without its UNIQUE constraint
AdminUnique_Unchecked(rows, username) == TRUE

\* admins.username is UNIQUE: a second row of that name is refused
AdminUnique(rows, username) ==
    \A i \in 1..Len(rows) : rows[i].username # username

\* INSERT OR REPLACE in place of INSERT OR IGNORE
SeedRow_Replace(inv, type, t) ==
    [x \in DOMAIN inv \cup {type} |->
        IF x = type THEN [units |-> 0, lastUpdated |-> t] ELSE inv[x]]

\* INSERT OR IGNORE INTO blood_inventory (bloodType, units) VALUES (type, 0)
SeedRow(inv, type, t) ==
    IF type \in DOMAIN inv
    THEN inv
    ELSE [x \in DOMAIN inv \cup {type} |->
            IF x = type THEN [units |-> 0, lastUpdated |-> t] ELSE inv[x]]

\* the UPDATE without its WHERE clause
UpdateInventory_NoWhere(inv, type, t) ==
    [x \in DOMAIN inv |-> [units |-> inv[x].units + 1, lastUpdated |-> t]]

\* a read of units followed by a write of the constant 1
UpdateInventory_Overwrite(inv, type, t) ==
    [x \in DOMAIN inv |->
        IF x = type THEN [units |-> 1, lastUpdated |-> t] ELSE inv[x]]

\* UPDATE blood_inventory SET units = units + 1, lastUpdated = CURRENT_TIMESTAMP
\* WHERE bloodType = type
UpdateInventory(inv, type, t) ==
    [x \in DOMAIN inv |->
        IF x = type THEN [units |-> inv[x].units + 1, lastUpdated |-> t] ELSE inv[x]]

Units(type) == inventory[type].units

DonorsOfType(type) == {i \in 1..Len(donors) : donors[i].bloodType = type}

(* --------------------------- responses --------------------------------- *)

NoRes == [status |-> 0, success |-> FALSE, message |-> "", donorId |-> 0, nidStatus |-> ""]

Res400(msg) == [status |-> 400, success |-> FALSE, message |-> msg, donorId |-> 0, nidStatus |-> ""]

Res500 == [status |-> 500, success |-> FALSE, message |-> MsgStore, donorId |-> 0, nidStatus |-> ""]

\* nidStatus: nidNumber ? 'pending' : 'none'
NidStatus(b) == IF Truthy(b["nidNumber"]) THEN "pending" ELSE "none"

ResSuccess(id, b) ==
    [status |-> 200, success |-> TRUE, message |-> MsgRegistered, donorId |-> id,
     nidStatus |-> NidStatus(b)]

IdleReq == [pc |-> "idle", body |-> NoBody, res |-> NoRes, err |-> "", lastID |-> 0]

(* ------------------------ startup initializer -------------------------- *)

\* the statements db.serialize queues: the CREATE TABLEs, the admin SELECT,
\* the inventory seeds; init counts those executed
InitLen == Len(AllTables) + 1 + Len(bloodTypes)

InitDone == init = InitLen

Quiet == \A r \in 1..MaxReqs : req[r].pc \in {"idle", "done"}

CreateTable ==
    /\ init < Len(AllTables)
    /\ tables' = tables \cup {AllTables[init + 1]}
    /\ init' = init + 1
    /\ UNCHANGED <<admins, inventory, donors, adminInsert, starts, req, now, listing, console>>

\* db.get("SELECT * FROM admins WHERE username = ?") and its callback: the
\* INSERT is issued when no row came back, which includes a failed SELECT
SelectAdmin ==
    /\ init = Len(AllTables)
    /\ \E err \in BOOLEAN :
         LET row == ~err /\ ~AdminUnique(admins, defaultAdmin.username)
         IN  adminInsert' = ~row
    /\ init' = init + 1
    /\ UNCHANGED <<tables, admins, inventory, donors, starts, req, now, listing, console>>

\* the INSERT INTO admins the callback issued, outside the serialized queue
InsertAdmin ==
    /\ adminInsert
    /\ adminInsert' = FALSE
    /\ admins' =
         IF AdminUnique(admins, defaultAdmin.username)
         THEN Append(admins, [id |-> Len(admins) + 1,
                              username |-> defaultAdmin.username,
                              password |-> defaultAdmin.password,
                              email |-> defaultAdmin.email,
                              name |-> defaultAdmin.name,
                              role |-> "admin",
                              created_at |-> now])
         ELSE admins
    /\ UNCHANGED <<tables, inventory, donors, init, starts, req, now, listing, console>>

SeedInventory ==
    /\ init > Len(AllTables)
    /\ init < InitLen
    /\ inventory' = SeedRow(inventory, bloodTypes[init - Len(AllTables)], now)
    /\ init' = init + 1
    /\ UNCHANGED <<tables, admins, donors, adminInsert, starts, req, now, listing, console>>

\* the process is started again on the same database file, after the
\* previous one finished its work
Restart ==
    /\ InitDone /\ ~adminInsert /\ Quiet
    /\ starts < MaxStarts
    /\ starts' = starts + 1
    /\ init' = 0
    /\ UNCHANGED <<tables, admins, inventory, donors, adminInsert, req, now, listing, console>>

Tick ==
    /\ now < MaxTime
    /\ now' = now + 1
    /\ UNCHANGED <<tables, admins, inventory, donors, init, adminInsert, starts, req, listing, console>>

(* ------------------------- POST /api/donors ---------------------------- *)

Reqs == 1..MaxReqs

\* a client's POST reaches the listening server; the requests are numbered
\* in the order they arrive, their payloads drawn from the set payloads
Arrive(r, payloads) ==
    /\ InitDone
    /\ req[r].pc = "idle"
    /\ \A q \in 1..(r - 1) : req[q].pc # "idle"
    /\ \E b \in payloads : req' = [req EXCEPT ![r].pc = "arrived", ![r].body = b]
    /\ UNCHANGED <<tables, admins, inventory, donors, init, adminInsert, starts, now, listing, console>>

\* the synchronous part of the handler: validation, then the INSERT is queued
PostDonors(r) ==
    /\ req[r].pc = "arrived"
    /\ LET msg == Validate(req[r].body)
       IN  req' = IF msg # ""
                  THEN [req EXCEPT ![r].pc = "done", ![r].res = Res400(msg)]
                  ELSE [req EXCEPT ![r].pc = "insertQueued"]
    /\ UNCHANGED <<tables, admins, inventory, donors, init, adminInsert, starts, now, listing, console>>

\* the store executes the INSERT INTO donors: it is refused by a NOT NULL
\* constraint, or fails for a reason of the environment, or adds the row
RunInsert(r) ==
    /\ req[r].pc = "insertQueued"
    /\ LET row == DonorRow(req[r].body, Len(donors) + 1, now)
       IN  \/ /\ ~NotNullHolds(row)
              /\ req' = [req EXCEPT ![r].pc = "insertRan", ![r].err = "SQLITE_CONSTRAINT"]
              /\ donors' = donors
           \/ /\ NotNullHolds(row)
              /\ req' = [req EXCEPT ![r].pc = "insertRan", ![r].err = "SQLITE_IOERR"]
              /\ donors' = donors
           \/ /\ NotNullHolds(row)
              /\ req' = [req EXCEPT ![r].pc = "insertRan", ![r].lastID = row.id]
              /\ donors' = Append(donors, row)
    /\ UNCHANGED <<tables, admins, inventory, init, adminInsert, starts, now, listing, console>>

\* function(err) of the INSERT: a 500 on error, else the UPDATE is queued
\* and the success response sent
InsertCallback(r) ==
    /\ req[r].pc = "insertRan"
    /\ \/ /\ req[r].err # ""
          /\ console' = console \cup {<<"db-error", r>>}
          /\ req' = [req EXCEPT ![r].pc = "done", ![r].res = Res500]
       \/ /\ req[r].err = ""
          /\ console' = console
          /\ req' = [req EXCEPT ![r].pc = "updateQueued",
                                ![r].res = ResSuccess(req[r].lastID, req[r].body)]
    /\ UNCHANGED <<tables, admins, inventory, donors, init, adminInsert, starts, now, listing>>

\* the store executes the UPDATE of blood_inventory, or fails to
RunUpdate(r) ==
    /\ req[r].pc = "updateQueued"
    /\ \/ /\ req' = [req EXCEPT ![r].pc = "updateRan", ![r].err = "SQLITE_IOERR"]
          /\ inventory' = inventory
       \/ /\ req' = [req EXCEPT ![r].pc = "updateRan"]
          /\ inventory' = UpdateInventory(inventory, req[r].body["bloodType"], now)
    /\ UNCHANGED <<tables, admins, donors, init, adminInsert, starts, now, listing, console>>

\* a callback that answers the failed UPDATE with a 500
UpdateCallback_Surface(r) ==
    /\ req[r].pc = "updateRan"
    /\ console' = IF req[r].err # "" THEN console \cup {<<"inventory-error", r>>} ELSE console
    /\ req' = IF req[r].err # ""
              THEN [req EXCEPT ![r].pc = "done", ![r].res = Res500]
              ELSE [req EXCEPT ![r].pc = "done"]
    /\ UNCHANGED <<tables, admins, inventory, donors, init, adminInsert, starts, now, listing>>

\* (updateErr) => { if (updateErr) console.error(...) }
UpdateCallback(r) ==
    /\ req[r].pc = "updateRan"
    /\ console' = IF req[r].err # "" THEN console \cup {<<"inventory-error", r>>} ELSE console
    /\ req' = [req EXCEPT ![r].pc = "done"]
    /\ UNCHANGED <<tables, admins, inventory, donors, init, adminInsert, starts, now, listing>>

(* -------------------------- GET /api/donors ---------------------------- *)

\* CURRENT_TIMESTAMP counts seconds; the listing shows the day
TicksPerDay == 86400

\* new Date(registrationDate).toLocaleDateString('bn-BD')
LocaleDate(t) == t \div TicksPerDay

\* the donor object of the response
ListRow(row) ==
    [row EXCEPT !.nidData = IF row.nidData # NULL THEN row.nidData ELSE NULL,
                !.registrationDate = LocaleDate(row.registrationDate)]

\* ORDER BY registrationDate ASC
OrderedByDate_Asc(rows, perm) ==
    \A p \in 1..Len(rows), q \in 1..Len(rows) :
        p < q => rows[perm[p]].registrationDate <= rows[perm[q]].registrationDate

\* ORDER BY registrationDate DESC: perm lists the rows by falling timestamp;
\* the order of rows of one timestamp is the store's choice
OrderedByDate(rows, perm) ==
    \A p \in 1..Len(rows), q \in 1..Len(rows) :
        p < q => rows[perm[p]].registrationDate >= rows[perm[q]].registrationDate

NoListing == [status |-> 0, success |-> FALSE, message |-> "", donors |-> <<>>, count |-> 0]

GetDonors ==
    /\ InitDone
    /\ \/ listing' = [status |-> 500, success |-> FALSE, message |-> MsgLoadFailed,
                      donors |-> <<>>, count |-> 0]
       \/ \E perm \in Permutations(1..Len(donors)) :
            /\ OrderedByDate(donors, perm)
            /\ listing' = [status |-> 200, success |-> TRUE, message |-> "",
                           donors |-> IF Len(donors) = 0 THEN <<>>
                                      ELSE [k \in 1..Len(donors) |-> ListRow(donors[perm[k]])],
                           count |-> Len(donors)]
    /\ UNCHANGED <<tables, admins, inventory, donors, init, adminInsert, starts, req, now, console>>

(* -------------------------- specifications ----------------------------- *)

\* the store the initializer leaves behind on a new database file
Initialized ==
    /\ tables = {AllTables[i] : i \in 1..Len(AllTables)}
    /\ admins = << [id |-> 1,
                    username |-> defaultAdmin.username,
                    password |-> defaultAdmin.password,
                    email |-> defaultAdmin.email,
                    name |-> defaultAdmin.name,
                    role |-> "admin",
                    created_at |-> 0] >>
    /\ inventory = [x \in CanonicalTypes |-> [units |-> 0, lastUpdated |-> 0]]
    /\ donors = <<>>
    /\ init = InitLen
    /\ adminInsert = FALSE
    /\ starts = 1

\* the server is up on a freshly initialized store; clients register
\* concurrently
Init ==
    /\ Initialized
    /\ req = [r \in Reqs |-> IdleReq]
    /\ now = 0
    /\ listing = NoListing
    /\ console = {}

Next ==
    \/ Tick
    \/ \E r \in Reqs : Arrive(r, Bodies)
    \/ \E r \in Reqs : PostDonors(r)
    \/ \E r \in Reqs : RunInsert(r)
    \/ \E r \in Reqs : InsertCallback(r)
    \/ \E r \in Reqs : RunUpdate(r)
    \/ \E r \in Reqs : UpdateCallback(r)

Spec == Init /\ [][Next]_vars

\* the same server, its clients sending complete payloads and listing the donors
NextList ==
    \/ Tick
    \/ \E r \in Reqs : Arrive(r, {FullBody})
    \/ \E r \in Reqs : PostDonors(r)
    \/ \E r \in Reqs : RunInsert(r)
    \/ \E r \in Reqs : InsertCallback(r)
    \/ \E r \in Reqs : RunUpdate(r)
    \/ \E r \in Reqs : UpdateCallback(r)
    \/ GetDonors

SpecList == Init /\ [][NextList]_vars

\* a new database file and the first process start; one client registers
\* between the starts
InitStart ==
    /\ tables = {}
    /\ admins = <<>>
    /\ inventory = [x \in {} |-> [units |-> 0, lastUpdated |-> 0]]
    /\ donors = <<>>
    /\ init = 0
    /\ adminInsert = FALSE
    /\ starts = 1
    /\ req = [r \in Reqs |-> IdleReq]
    /\ now = 0
    /\ listing = NoListing
    /\ console = {}

NextStart ==
    \/ CreateTable
    \/ SelectAdmin
    \/ InsertAdmin
    \/ SeedInventory
    \/ Restart
    \/ Tick
    \/ Arrive(1, Bodies)
    \/ PostDonors(1)
    \/ RunInsert(1)
    \/ InsertCallback(1)
    \/ RunUpdate(1)
    \/ UpdateCallback(1)

SpecStart == InitStart /\ [][NextStart]_vars

\* one request, its payload drawn from OneBodies, against the initialized store
InitOne ==
    /\ Initialized
    /\ \E b \in OneBodies :
         req = [r \in Reqs |-> IF r = 1
                               THEN [IdleReq EXCEPT !.pc = "arrived", !.body = b]
                               ELSE IdleReq]
    /\ now = 0
    /\ listing = NoListing
    /\ console = {}

NextOne ==
    \/ Tick
    \/ \E r \in Reqs : PostDonors(r)
    \/ \E r \in Reqs : RunInsert(r)
    \/ \E r \in Reqs : InsertCallback(r)
    \/ \E r \in Reqs : RunUpdate(r)
    \/ \E r \in Reqs : UpdateCallback(r)

SpecOne == InitOne /\ [][NextOne]_vars

(* ------------------------------ claims --------------------------------- *)

Handled(r) == req[r].pc \notin {"idle", "arrived"}

InsertSucceeded(r) == req[r].lastID # 0

Registered(type) ==
    {r \in Reqs : req[r].body["bloodType"] = type /\ InsertSucceeded(r)}

UpdateFailures == {e \in console : e[1] = "inventory-error"}

\* C1: whenever the inventory UPDATE of a registration of blood type T runs
\* without failing, blood_inventory has a row for T and its unit count is
\* exactly 1 higher than before, for every T the handler accepts.
C1_UpdateAddsOne ==
    [][\A r \in Reqs :
          (req[r].pc = "updateQueued" /\ req'[r].pc = "updateRan" /\ req'[r].err = "")
          => LET T == req[r].body["bloodType"]
             IN  /\ T \in DOMAIN inventory
                 /\ T \in DOMAIN inventory'
                 /\ inventory'[T].units = inventory[T].units + 1]_vars

MissingRequired(b) == \E f \in RequiredFields : b[f] = Undefined \/ b[f] = <<>>

\* C2: a payload with a required field missing or empty is answered 400 with
\* the required-fields message; no donor row is inserted and no inventory
\* count changes.
C2_MissingRequiredRejected ==
    \A r \in Reqs :
        (Handled(r) /\ MissingRequired(req[r].body))
        => /\ req[r].pc = "done"
           /\ req[r].res = Res400(MsgRequired)
           /\ donors = <<>>
           /\ \A T \in CanonicalTypes : inventory[T] = [units |-> 0, lastUpdated |-> 0]

C2_Witness ==
    \E r \in Reqs :
        /\ req[r].pc = "done"
        /\ req[r].body = [FullBody EXCEPT !["city"] = <<>>]
        /\ req[r].res.status = 400

\* C3: a payload with all required fields valid and no date of birth,
\* address or zip code is accepted: once handled, and the store having met
\* no failure of its environment, the response is the 200 success with
\* nidStatus "none", the donor row exists and the units of its blood type
\* were incremented.
C3_RequiredOnlyAccepted ==
    \A r \in Reqs :
        (req[r].pc = "done" /\ req[r].body = RequiredOnlyBody /\ req[r].err # "SQLITE_IOERR")
        => /\ req[r].res.status = 200
           /\ req[r].res.nidStatus = "none"
           /\ \E i \in 1..Len(donors) : donors[i].id = req[r].res.donorId
           /\ Units(TypeOPos) >= 1

\* the phone check is reached: the required fields are there, the email passes
ReachedPhoneCheck(b) == ~MissingRequired(b) /\ emailRegex(b["email"])

PhonePassed(r) == req[r].res.message # MsgPhone

\* +8801, one digit of 3-9, 8 more digits
ClaimedPhoneForm(s) ==
    /\ Len(s) = 14
    /\ SubSeq(s, 1, 5) = <<"+", "8", "8", "0", "1">>
    /\ s[6] \in {"3", "4", "5", "6", "7", "8", "9"}
    /\ \A k \in 7..14 : s[k] \in Digits

\* +880, +88, 880 or 88, then 1, one digit of 3-9, 8 more digits
AmendedPhoneForm(s) ==
    \E pre \in { <<"+", "8", "8", "0">>, <<"+", "8", "8">>, <<"8", "8", "0">>, <<"8", "8">> } :
        /\ Len(s) = Len(pre) + 10
        /\ SubSeq(s, 1, Len(pre)) = pre
        /\ s[Len(pre) + 1] = "1"
        /\ s[Len(pre) + 2] \in {"3", "4", "5", "6", "7", "8", "9"}
        /\ \A k \in (Len(pre) + 3)..Len(s) : s[k] \in Digits

\* C4 as stated: the phone check passes exactly for the phone strings that,
\* whitespace removed, are +8801[3-9] and 8 digits; every other one is
\* answered 400 with the phone-format message and no row is created.
C4_PhoneAsClaimed ==
    \A r \in Reqs :
        (Handled(r) /\ ReachedPhoneCheck(req[r].body))
        => /\ PhonePassed(r) <=> ClaimedPhoneForm(StripSpaces(req[r].body["phone"]))
           /\ ~PhonePassed(r) => req[r].res = Res400(MsgPhone) /\ donors = <<>>

\* C4 amended: the phone check passes exactly for the phone strings that,
\* whitespace removed, are an optional "+", then 88, an optional 0, then 1,
\* a digit of 3-9 and 8 more digits (every +8801[3-9]XXXXXXXX string among
\* them); every other one is answered 400 with the phone-format message and
\* no row is created.
C4_PhoneAmended ==
    \A r \in Reqs :
        (Handled(r) /\ ReachedPhoneCheck(req[r].body))
        => /\ PhonePassed(r) <=> AmendedPhoneForm(StripSpaces(req[r].body["phone"]))
           /\ ClaimedPhoneForm(StripSpaces(req[r].body["phone"])) => PhonePassed(r)
           /\ ~PhonePassed(r) => req[r].res = Res400(MsgPhone) /\ donors = <<>>

C4_Witness ==
    \E r \in Reqs :
        /\ req[r].pc = "done"
        /\ req[r].body["phone"] =
             <<"8", "8", " ", "0", "1", "7", "1", "1", "1", "1", "2", "2", "2", "2">>
        /\ req[r].res.status = 200
        /\ Len(donors) = 1

\* C5: after the initializer has run twice against the same store, there is
\* exactly one admin row, its username admin, and exactly 8 inventory rows,
\* one per canonical blood type.
C5_InitializerIdempotent ==
    (starts >= 2 /\ InitDone /\ ~adminInsert)
    => /\ Len(admins) = 1
       /\ admins[1].username = "admin"
       /\ DOMAIN inventory = CanonicalTypes
       /\ Cardinality(DOMAIN inventory) = 8

C5_Witness == starts = 2 /\ InitDone /\ ~adminInsert /\ Len(donors) = 1

\* C6 as stated: a listing shows the donors newest first: a donor registered
\* after another one (a higher id) comes before it, also when both were
\* registered within one tick of the timestamp.
C6_NewestFirst ==
    listing.status = 200
    => \A p \in 1..Len(listing.donors), q \in 1..Len(listing.donors) :
          p < q => listing.donors[p].id > listing.donors[q].id

\* C6 amended: GET /api/donors returns all donor rows, and a donor with a
\* strictly later registration timestamp than another one comes before it;
\* donors registered within one tick of the timestamp come in either order.
C6_LaterTimestampFirst ==
    [][(listing' # listing /\ listing'.status = 200)
       => /\ listing'.count = Len(donors)
          /\ Len(listing'.donors) = Len(donors)
          /\ {listing'.donors[p].id : p \in 1..Len(listing'.donors)} = 1..Len(donors)
          /\ \A p \in 1..Len(listing'.donors), q \in 1..Len(listing'.donors) :
                donors[listing'.donors[p].id].registrationDate
                  > donors[listing'.donors[q].id].registrationDate
                => p < q]_vars

C6_Witness ==
    /\ listing.status = 200
    /\ Len(listing.donors) = 2
    /\ listing.donors[1].id = 2
    /\ donors[2].registrationDate > donors[1].registrationDate

\* C7: once the donor insert of a registration has succeeded the response is
\* the success response with the generated donorId and the nidStatus,
\* whether the inventory UPDATE then succeeds or fails; a failed UPDATE is
\* logged, the donor row stays as inserted and the response stays.
C7_UpdateFailureSwallowed ==
    \A r \in Reqs :
        (InsertSucceeded(r) /\ req[r].pc \in {"updateQueued", "updateRan", "done"})
        => /\ req[r].res = ResSuccess(req[r].lastID, req[r].body)
           /\ req[r].lastID \in 1..Len(donors)
           /\ donors[req[r].lastID] =
                DonorRow(req[r].body, req[r].lastID, donors[req[r].lastID].registrationDate)
           /\ (req[r].pc = "done" /\ req[r].err # "")
              => <<"inventory-error", r>> \in console

C7_Witness ==
    \E r \in Reqs :
        /\ req[r].pc = "done"
        /\ InsertSucceeded(r)
        /\ req[r].err = "SQLITE_IOERR"
        /\ req[r].body = FullBody
        /\ req[r].res.success
        /\ Units(TypeOPos) = 0

\* C8: every persisted donor row has one of the 8 canonical blood types.
C8_CanonicalBloodTypes ==
    \A i \in 1..Len(donors) : donors[i].bloodType \in CanonicalTypes

\* C9: when the registrations of a canonical blood type T, handled
\* concurrently, have all completed with every insert and update succeeding,
\* the units of T have grown by their number: no increment is lost.
C9_NoLostIncrement ==
    \A T \in CanonicalTypes :
        (Quiet /\ \A r \in Reqs : req[r].body["bloodType"] = T => req[r].err = "")
        => Units(T) = Cardinality(Registered(T))

C9_Witness ==
    /\ Quiet
    /\ Cardinality(Registered(TypeOPos)) = 2
    /\ \A r \in Reqs : req[r].err = ""
    /\ Units(TypeOPos) = 2

C10_Bounds ==
    \A T \in CanonicalTypes :
        /\ Units(T) >= 0
        /\ Units(T) <= Cardinality(DonorsOfType(T))
        /\ (Quiet /\ UpdateFailures = {}) => Units(T) = Cardinality(DonorsOfType(T))

\* C10: for every canonical blood type T the units of T are never negative
\* and never more than the donor rows of type T, they never decrease, and
\* they equal the number of donor rows of type T whenever no registration is
\* in flight and no inventory update has failed.
C10_UnitsTrackDonors ==
    /\ []C10_Bounds
    /\ [][\A T \in CanonicalTypes : inventory'[T].units >= inventory[T].units]_vars

C10_Witness ==
    \E T \in CanonicalTypes :
        /\ Units(T) = 1
        /\ Cardinality(DonorsOfType(T)) = 2
        /\ UpdateFailures = {}

====
